---- MODULE Spec2Model ----
(***************************************************************************)
(* Model of the mobile test helper layer:                                  *)
(*   framework/core/driver_manager.py  DriverManager                       *)
(*   framework/core/base_page.py       BasePage (waits, swipes, scroll)    *)
(*                                                                         *)
(* Python values are modelled as follows.  A str that the code only        *)
(* compares or passes through is a TLA+ string; the platform argument,     *)
(* which the code lower-cases, is a sequence of one-character strings.     *)
(* A dict is a function whose DOMAIN is the dict's key set.  An optional   *)
(* dict is a record [isNone |-> TRUE] or [isNone |-> FALSE, dict |-> d].   *)
(* The remote automation server is the environment: whether it opens a     *)
(* session, whether a close request raises, and whether an element is      *)
(* located within a wait's timeout are inputs of the actions.              *)
(***************************************************************************)
EXTENDS Integers, Sequences, FiniteSets, TLC

VARIABLES
    configFile,   \* what is on disk at config_path when the manager is built
    initRaised,   \* exception that escaped __init__ ("None": construction succeeded)
    config,       \* DriverManager.config
    driver,       \* DriverManager.driver: NoDriver, or the index of a session
    sessions,     \* sessions the remote server opened for this manager, in order
    scope,        \* position of the caller relative to a `with manager:` block
    lastCall,     \* the latest DriverManager call: its arguments and outcome
    scrollCall    \* the latest BasePage.scroll_to_element call and its outcome

vars == <<configFile, initRaised, config, driver, sessions, scope, lastCall, scrollCall>>

managerVars == <<configFile, initRaised, config, driver, sessions, scope, lastCall>>

----------------------------------------------------------------------------
(* Bounds of the model *)

\* sessions one manager opens in a run of the lifecycle specification
MaxSessions == 3

\* largest max_scrolls argument tried
MaxScrollsArg == 3

----------------------------------------------------------------------------
(* Python values *)

\* Python's None where a str is expected
None == "None"

\* self.driver = None
NoDriver == 0

\* truthiness of an Optional[str]: None and "" are falsy
StrTruthy(s) == s # None /\ s # ""

EmptyDict == <<>>

NoneDict == [isNone |-> TRUE]

SomeDict(d) == [isNone |-> FALSE, dict |-> d]

\* truthiness of an Optional[dict]: None and {} are falsy
DictTruthy(od) == ~od.isNone /\ DOMAIN od.dict # {}

\* d.get(k, default)
DictGet(d, k, default) == IF k \in DOMAIN d THEN d[k] ELSE default

\* d[k] = v
DictSetItem(d, k, v) == [x \in DOMAIN d \cup {k} |-> IF x = k THEN v ELSE d[x]]

\* d.update(e)
DictUpdate(d, e) == [x \in DOMAIN d \cup DOMAIN e |-> IF x \in DOMAIN e THEN e[x] ELSE d[x]]

\* d.setdefault(k, v), for its effect on d
DictSetDefault(d, k, v) == IF k \in DOMAIN d THEN d ELSE DictSetItem(d, k, v)

\* the part of dict d on the keys S
Restrict(d, S) == [x \in S \cap DOMAIN d |-> d[x]]

\* the ASCII letters, upper case and lower case in the same order
UpperLetters ==
    <<"A", "B", "C", "D", "E", "F", "G", "H", "I", "J", "K", "L", "M",
      "N", "O", "P", "Q", "R", "S", "T", "U", "V", "W", "X", "Y", "Z">>

LowerLetters ==
    <<"a", "b", "c", "d", "e", "f", "g", "h", "i", "j", "k", "l", "m",
      "n", "o", "p", "q", "r", "s", "t", "u", "v", "w", "x", "y", "z">>

\* str.lower() on one ASCII character: an upper-case letter becomes its
\* lower-case letter, any other character stays as it is
CharLower(c) ==
    IF \E i \in 1..Len(UpperLetters) : UpperLetters[i] = c
    THEN LowerLetters[CHOOSE i \in 1..Len(UpperLetters) : UpperLetters[i] = c]
    ELSE c

\* str.lower()
StrLower(s) == [i \in 1..Len(s) |-> CharLower(s[i])]

STR_android == <<"a", "n", "d", "r", "o", "i", "d">>

STR_ios == <<"i", "o", "s">>

----------------------------------------------------------------------------
(* DriverManager.__init__ and _load_config *)

\* yaml.safe_load(open(config_path)) : the exception raised, or the value loaded
ReadYaml(file) ==
    CASE file.kind = "missing"   -> [raised |-> "FileNotFoundError", value |-> NoneDict]
      [] file.kind = "malformed" -> [raised |-> "YAMLError", value |-> NoneDict]
      [] file.kind = "empty"     -> [raised |-> None, value |-> NoneDict]
      [] OTHER                   -> [raised |-> None, value |-> SomeDict(file.doc)]

\* _load_config: only FileNotFoundError is caught, and degrades to {}
_load_config(file) ==
    LET r == ReadYaml(file) IN
    IF r.raised = "FileNotFoundError"
    THEN [raised |-> None, config |-> SomeDict(EmptyDict)]
    ELSE [raised |-> r.raised, config |-> r.value]

----------------------------------------------------------------------------
(* Capability merge of create_android_driver / create_ios_driver *)

DEFAULT_URL == "http://localhost:4723"

\* the merge with custom_caps applied before the app_path/device_name parameters
android_caps_params_last(cfg, app_path, device_name, custom_caps) ==
    LET c0 == DictGet(cfg, "android", EmptyDict)
        c1 == IF DictTruthy(custom_caps) THEN DictUpdate(c0, custom_caps.dict) ELSE c0
        c2 == IF StrTruthy(app_path) THEN DictSetItem(c1, "app", app_path) ELSE c1
        c3 == IF StrTruthy(device_name) THEN DictSetItem(c2, "deviceName", device_name) ELSE c2
        c4 == DictSetDefault(c3, "platformName", "Android")
        c5 == DictSetDefault(c4, "automationName", "UiAutomator2")
        c6 == DictSetDefault(c5, "deviceName", "Android Emulator")
        c7 == DictSetDefault(c6, "newCommandTimeout", 300)
    IN  c7

\* the merge with the defaults assigned (caps[k] = v) instead of setdefault
android_caps_defaults_assigned(cfg, app_path, device_name, custom_caps) ==
    LET c0 == DictGet(cfg, "android", EmptyDict)
        c1 == IF StrTruthy(app_path) THEN DictSetItem(c0, "app", app_path) ELSE c0
        c2 == IF StrTruthy(device_name) THEN DictSetItem(c1, "deviceName", device_name) ELSE c1
        c3 == IF DictTruthy(custom_caps) THEN DictUpdate(c2, custom_caps.dict) ELSE c2
        c4 == DictSetItem(c3, "platformName", "Android")
        c5 == DictSetItem(c4, "automationName", "UiAutomator2")
        c6 == DictSetItem(c5, "deviceName", "Android Emulator")
        c7 == DictSetItem(c6, "newCommandTimeout", 300)
    IN  c7

\* caps as built by create_android_driver before the session is requested
android_caps(cfg, app_path, device_name, custom_caps) ==
    LET c0 == DictGet(cfg, "android", EmptyDict)
        c1 == IF StrTruthy(app_path) THEN DictSetItem(c0, "app", app_path) ELSE c0
        c2 == IF StrTruthy(device_name) THEN DictSetItem(c1, "deviceName", device_name) ELSE c1
        c3 == IF DictTruthy(custom_caps) THEN DictUpdate(c2, custom_caps.dict) ELSE c2
        c4 == DictSetDefault(c3, "platformName", "Android")
        c5 == DictSetDefault(c4, "automationName", "UiAutomator2")
        c6 == DictSetDefault(c5, "deviceName", "Android Emulator")
        c7 == DictSetDefault(c6, "newCommandTimeout", 300)
    IN  c7

\* caps as built by create_ios_driver before the session is requested
ios_caps(cfg, app_path, device_name, custom_caps) ==
    LET c0 == DictGet(cfg, "ios", EmptyDict)
        c1 == IF StrTruthy(app_path) THEN DictSetItem(c0, "app", app_path) ELSE c0
        c2 == IF StrTruthy(device_name) THEN DictSetItem(c1, "deviceName", device_name) ELSE c1
        c3 == IF DictTruthy(custom_caps) THEN DictUpdate(c2, custom_caps.dict) ELSE c2
        c4 == DictSetDefault(c3, "platformName", "iOS")
        c5 == DictSetDefault(c4, "automationName", "XCUITest")
        c6 == DictSetDefault(c5, "deviceName", "iPhone 14")
        c7 == DictSetDefault(c6, "newCommandTimeout", 300)
    IN  c7

\* caps.get('appiumUrl', 'http://localhost:4723')
appium_url(caps) == DictGet(caps, "appiumUrl", DEFAULT_URL)

----------------------------------------------------------------------------
(* Input domains *)

\* platform arguments: case variants of the two names, and other strings
Platforms ==
    { STR_android, STR_ios,
      <<"A", "n", "d", "r", "o", "i", "d">>,
      <<"A", "N", "D", "R", "O", "I", "D">>,
      <<"a", "n", "d", "R", "O", "i", "d">>,
      <<"i", "O", "S">>, <<"I", "O", "S">>, <<"I", "o", "s">>,
      <<>>, <<"w", "e", "b">>, <<"W", "E", "B">>,
      <<"i", "o", "s", " ">>, <<"d", "r", "o", "i", "d">>,
      <<"a", "n", "d", "r", "o", "i", "d", "s">>,
      <<"L", "i", "n", "u", "x">>, <<"M", "A", "C">> }

\* a section of the capabilities file with every key the inputs use
FullSection ==
    [deviceName |-> "OldDevice", app |-> "/old.apk", newCommandTimeout |-> 60]

Sections == { Restrict(FullSection, S) : S \in SUBSET (DOMAIN FullSection) }

\* a custom_caps dict with every key the inputs use
FullCustom ==
    [deviceName |-> "Pixel_6", platformName |-> "Custom", udid |-> "emulator-5554"]

CustomCaps ==
    {NoneDict} \cup { SomeDict(Restrict(FullCustom, S)) : S \in SUBSET (DOMAIN FullCustom) }

AppPaths == {None, "", "/a.apk"}

DeviceNames == {None, "", "Nexus_5"}

MappingFile(doc) == [kind |-> "mapping", doc |-> doc]

\* files tried by the capability specification
CapsConfigFiles ==
    { [kind |-> "missing"], [kind |-> "empty"], [kind |-> "malformed"],
      MappingFile(EmptyDict),
      MappingFile([android |-> FullSection]),
      MappingFile([ios |-> FullSection]) }
    \cup { MappingFile([android |-> s, ios |-> s]) : s \in Sections }

\* files tried by the lifecycle specification
ConfigFiles ==
    { [kind |-> "missing"], [kind |-> "empty"], [kind |-> "malformed"],
      MappingFile([android |-> [deviceName |-> "OldDevice"]]) }

----------------------------------------------------------------------------
(* State after DriverManager(config_path) *)

NoCall ==
    [op |-> "none", platform |-> <<>>, app_path |-> None, device_name |-> None,
     custom_caps |-> NoneDict, builder |-> "none", raised |-> None,
     requested |-> FALSE, opened |-> FALSE, caps |-> EmptyDict, url |-> None,
     closeRequests |-> 0, close_error |-> None, exc_type |-> None]

NoScroll == [called |-> FALSE]

\* __init__: config_path, driver = None, _load_config()
InitManager(files) ==
    /\ configFile \in files
    /\ initRaised = _load_config(configFile).raised
    /\ config = _load_config(configFile).config
    /\ driver = NoDriver
    /\ sessions = <<>>
    /\ scope = "outside"
    /\ lastCall = NoCall

\* a call can be made on a constructed manager, outside or inside a with block
CanCall == initRaised = None /\ scope \in {"outside", "inside"}

----------------------------------------------------------------------------
(* create_android_driver, create_ios_driver, create_driver *)

NewSession(builder) == [builder |-> builder, state |-> "open", closeRequests |-> 0]

\* the body of create_android_driver, reached directly (op = its own name)
\* or through create_driver (op = "create_driver", platform = its argument)
\* UiAutomator2Options.load_capabilities(caps) hands caps to the session
\* request as they are; remoteOk: webdriver.Remote(...) returns a session.
android_driver(op, platform, app_path, device_name, custom_caps, remoteOk) ==
    LET call == [NoCall EXCEPT !.op = op, !.platform = platform,
                               !.app_path = app_path, !.device_name = device_name,
                               !.custom_caps = custom_caps, !.builder = "android"]
    IN
    IF config.isNone
    THEN \* self.config is None: self.config.get raises
         /\ lastCall' = [call EXCEPT !.raised = "AttributeError"]
         /\ UNCHANGED <<driver, sessions>>
    ELSE LET caps == android_caps(config.dict, app_path, device_name, custom_caps)
             sent == [call EXCEPT !.requested = TRUE, !.caps = caps,
                                  !.url = appium_url(caps)]
         IN  IF remoteOk
             THEN /\ sessions' = Append(sessions, NewSession("android"))
                  /\ driver' = Len(sessions) + 1
                  /\ lastCall' = [sent EXCEPT !.opened = TRUE]
             ELSE \* webdriver.Remote raised: logged and re-raised
                  /\ lastCall' = [sent EXCEPT !.raised = "WebDriverException"]
                  /\ UNCHANGED <<driver, sessions>>

\* the body of create_ios_driver
ios_driver(op, platform, app_path, device_name, custom_caps, remoteOk) ==
    LET call == [NoCall EXCEPT !.op = op, !.platform = platform,
                               !.app_path = app_path, !.device_name = device_name,
                               !.custom_caps = custom_caps, !.builder = "ios"]
    IN
    IF config.isNone
    THEN /\ lastCall' = [call EXCEPT !.raised = "AttributeError"]
         /\ UNCHANGED <<driver, sessions>>
    ELSE LET caps == ios_caps(config.dict, app_path, device_name, custom_caps)
             sent == [call EXCEPT !.requested = TRUE, !.caps = caps,
                                  !.url = appium_url(caps)]
         IN  IF remoteOk
             THEN /\ sessions' = Append(sessions, NewSession("ios"))
                  /\ driver' = Len(sessions) + 1
                  /\ lastCall' = [sent EXCEPT !.opened = TRUE]
             ELSE /\ lastCall' = [sent EXCEPT !.raised = "WebDriverException"]
                  /\ UNCHANGED <<driver, sessions>>

create_android_driver(app_path, device_name, custom_caps, remoteOk) ==
    /\ CanCall
    /\ android_driver("create_android_driver", <<>>, app_path, device_name,
                      custom_caps, remoteOk)
    /\ UNCHANGED <<configFile, initRaised, config, scope, scrollCall>>

create_ios_driver(app_path, device_name, custom_caps, remoteOk) ==
    /\ CanCall
    /\ ios_driver("create_ios_driver", <<>>, app_path, device_name,
                  custom_caps, remoteOk)
    /\ UNCHANGED <<configFile, initRaised, config, scope, scrollCall>>

\* create_driver comparing the platform argument as given
create_driver_case_sensitive(platform, app_path, device_name, custom_caps, remoteOk) ==
    /\ CanCall
    /\ IF platform = STR_android
       THEN android_driver("create_driver", platform, app_path, device_name,
                           custom_caps, remoteOk)
       ELSE IF platform = STR_ios
       THEN ios_driver("create_driver", platform, app_path, device_name,
                       custom_caps, remoteOk)
       ELSE /\ lastCall' = [NoCall EXCEPT !.op = "create_driver",
                                          !.platform = platform,
                                          !.app_path = app_path,
                                          !.device_name = device_name,
                                          !.custom_caps = custom_caps,
                                          !.raised = "ValueError"]
            /\ UNCHANGED <<driver, sessions>>
    /\ UNCHANGED <<configFile, initRaised, config, scope, scrollCall>>

create_driver(platform, app_path, device_name, custom_caps, remoteOk) ==
    /\ CanCall
    /\ LET lowered == StrLower(platform) IN
       IF lowered = STR_android
       THEN android_driver("create_driver", platform, app_path, device_name,
                           custom_caps, remoteOk)
       ELSE IF lowered = STR_ios
       THEN ios_driver("create_driver", platform, app_path, device_name,
                       custom_caps, remoteOk)
       ELSE /\ lastCall' = [NoCall EXCEPT !.op = "create_driver",
                                          !.platform = platform,
                                          !.app_path = app_path,
                                          !.device_name = device_name,
                                          !.custom_caps = custom_caps,
                                          !.raised = "ValueError"]
            /\ UNCHANGED <<driver, sessions>>
    /\ UNCHANGED <<configFile, initRaised, config, scope, scrollCall>>

----------------------------------------------------------------------------
(* quit_driver, __enter__, __exit__ *)

\* try/except/finally of quit_driver with the except clause left out
quit_attempt_no_except(quitOk) ==
    LET thrown == IF quitOk THEN None ELSE "WebDriverException" IN
    [close_error |-> thrown, raised |-> thrown, cleared |-> TRUE]

\* try/except of quit_driver with the handle cleared after quit() in the try body
quit_attempt_no_finally(quitOk) ==
    LET thrown == IF quitOk THEN None ELSE "WebDriverException" IN
    [close_error |-> thrown, raised |-> None, cleared |-> thrown = None]

\* The try/except/finally of quit_driver, entered with a handle held.
\* quitOk: the remote close request self.driver.quit() does not raise.
quit_attempt(quitOk) ==
    LET thrown == IF quitOk THEN None ELSE "WebDriverException"  \* try
        caught == thrown # None                                  \* except Exception
    IN  [close_error |-> thrown,
         raised |-> IF caught THEN None ELSE thrown,
         cleared |-> TRUE]                                       \* finally

\* the body of quit_driver, called as op
quit_body(op, exc_type, quitOk) ==
    IF driver # NoDriver
    THEN LET a == quit_attempt(quitOk) IN
         /\ sessions' = [sessions EXCEPT ![driver] =
                            [@ EXCEPT !.closeRequests = @ + 1,
                                      !.state = IF quitOk THEN "closed"
                                                ELSE "close_failed"]]
         /\ driver' = IF a.cleared THEN NoDriver ELSE driver
         /\ lastCall' = [NoCall EXCEPT !.op = op, !.exc_type = exc_type,
                                       !.closeRequests = 1,
                                       !.close_error = a.close_error,
                                       !.raised = a.raised]
    ELSE /\ lastCall' = [NoCall EXCEPT !.op = op, !.exc_type = exc_type]
         /\ UNCHANGED <<driver, sessions>>

quit_driver(quitOk) ==
    /\ CanCall
    /\ quit_body("quit_driver", None, quitOk)
    /\ UNCHANGED <<configFile, initRaised, config, scope, scrollCall>>

\* __enter__ returns self
__enter__ ==
    /\ initRaised = None
    /\ scope = "outside"
    /\ scope' = "inside"
    /\ UNCHANGED <<configFile, initRaised, config, driver, sessions, lastCall, scrollCall>>

\* An exception leaves the body of the with block: the one the latest call
\* raised, or one raised by other code of the body.
block_raises(exc) ==
    /\ scope = "inside"
    /\ exc \in {"BodyError"} \cup ({lastCall.raised} \ {None})
    /\ scope' = exc
    /\ UNCHANGED <<configFile, initRaised, config, driver, sessions, lastCall, scrollCall>>

\* __exit__ that cleans up only when the block completed normally
__exit__only_on_success(quitOk) ==
    /\ scope # "outside"
    /\ IF scope = "inside"
       THEN quit_body("__exit__", None, quitOk)
       ELSE /\ lastCall' = [NoCall EXCEPT !.op = "__exit__", !.exc_type = scope]
            /\ UNCHANGED <<driver, sessions>>
    /\ scope' = "outside"
    /\ UNCHANGED <<configFile, initRaised, config, scrollCall>>

\* __exit__(exc_type, exc_val, exc_tb): runs when the block is left, with the
\* exception that is leaving it (None on normal completion)
__exit__(quitOk) ==
    /\ scope # "outside"
    /\ quit_body("__exit__", IF scope = "inside" THEN None ELSE scope, quitOk)
    /\ scope' = "outside"
    /\ UNCHANGED <<configFile, initRaised, config, scrollCall>>

----------------------------------------------------------------------------
(* Lifecycle specification: one manager, any sequence of calls *)

Init == InitManager(ConfigFiles) /\ scrollCall = NoScroll

CallCreateDriver ==
    /\ Len(sessions) < MaxSessions
    /\ \E p \in Platforms, ok \in BOOLEAN : create_driver(p, None, None, NoneDict, ok)

CallQuitDriver == \E ok \in BOOLEAN : quit_driver(ok)

EnterBlock == __enter__

BlockRaises == \E exc \in {"BodyError", "ValueError", "AttributeError", "WebDriverException"} :
                   block_raises(exc)

ExitBlock == \E ok \in BOOLEAN : __exit__(ok)

Next ==
    \/ CallCreateDriver
    \/ CallQuitDriver
    \/ EnterBlock
    \/ BlockRaises
    \/ ExitBlock

Spec == Init /\ [][Next]_vars

----------------------------------------------------------------------------
(* Capability specification: the builders, called on a manager that holds  *)
(* no session yet, on every combination of config file and arguments       *)

InitCaps == InitManager(CapsConfigFiles) /\ scrollCall = NoScroll

CallCreateAndroid ==
    /\ sessions = <<>>
    /\ \E a \in AppPaths, d \in DeviceNames, cc \in CustomCaps, ok \in BOOLEAN :
           create_android_driver(a, d, cc, ok)

CallCreateIos ==
    /\ sessions = <<>>
    /\ \E a \in AppPaths, d \in DeviceNames, cc \in CustomCaps, ok \in BOOLEAN :
           create_ios_driver(a, d, cc, ok)

NextCaps ==
    \/ CallCreateAndroid
    \/ CallCreateIos

SpecCaps == InitCaps /\ [][NextCaps]_vars

----------------------------------------------------------------------------
(* BasePage: waits, swipes and scroll_to_element *)

\* what find_element returns when the element is located
Element == "element"

SLEEP_MS == 500

\* one interaction of a BasePage call with the session or the clock
Event(kind, timeout, sx, sy, ex, ey, duration) ==
    [kind |-> kind, timeout |-> timeout, start_x |-> sx, start_y |-> sy,
     end_x |-> ex, end_y |-> ey, duration |-> duration]

\* WebDriverWait(self.driver, timeout).until(presence_of_element_located(locator))
\* located: the server reports the element within the timeout
\* caller: the BasePage method that waits
WaitPresence(caller, timeout, located) ==
    [raised |-> IF located THEN None ELSE "TimeoutException",
     value |-> IF located THEN Element ELSE None,
     events |-> <<Event(caller, timeout, 0, 0, 0, 0, 0)>>]

\* find_element(locator, timeout): TimeoutException is logged and re-raised
find_element(timeout, located) ==
    LET w == WaitPresence("find_element", timeout, located) IN
    [raised |-> w.raised, ret |-> w.value, events |-> w.events]

\* is_element_present(locator, timeout): TimeoutException becomes False
is_element_present(timeout, located) ==
    LET w == WaitPresence("is_element_present", timeout, located) IN
    [raised |-> None, ret |-> (w.raised = None), events |-> w.events]

\* int(n * 0.8) and int(n * 0.2) for a window dimension n >= 0
Int08(n) == (n * 8) \div 10

Int02(n) == (n * 2) \div 10

\* swipe_up(duration): from 80% to 20% of the height, at half the width
swipe_up(size, duration) ==
    <<Event("swipe_up", 0, size.width \div 2, Int08(size.height),
            size.width \div 2, Int02(size.height), duration)>>

\* swipe_down(duration): from 20% to 80% of the height, at half the width
swipe_down(size, duration) ==
    <<Event("swipe_down", 0, size.width \div 2, Int02(size.height),
            size.width \div 2, Int08(size.height), duration)>>

\* time.sleep(0.5)
sleep_half_second == <<Event("sleep", 0, 0, 0, 0, 0, SLEEP_MS)>>

\* The for loop of scroll_to_element from iteration i (0-based) on, with the
\* interactions so far in log.  present[i + 1] is what the server answers to
\* the presence check of iteration i, resolved what it answers to the
\* find_element that follows a positive check.
RECURSIVE scroll_loop(_, _, _, _, _, _, _)
scroll_loop(i, max_scrolls, direction, present, resolved, size, log) ==
    IF i >= max_scrolls
    THEN [ret |-> None, raised |-> None, events |-> log, found_after |-> -1]
    ELSE LET check == is_element_present(2, present[i + 1]) IN
         IF check.ret
         THEN LET found == find_element(10, resolved) IN
              [ret |-> found.ret, raised |-> found.raised,
               events |-> log \o check.events \o found.events,
               found_after |-> i]
         ELSE LET swipe == IF direction = "up" THEN swipe_up(size, 800)
                           ELSE swipe_down(size, 800)
              IN  scroll_loop(i + 1, max_scrolls, direction, present, resolved, size,
                              log \o check.events \o swipe \o sleep_half_second)

\* scroll_to_element looping range(max_scrolls + 1)
scroll_to_element_extra_iteration(max_scrolls, direction, present, resolved, size) ==
    scroll_loop(0, max_scrolls + 1, direction,
                present \o <<FALSE>>, resolved, size, <<>>)

\* scroll_to_element(locator, max_scrolls, direction)
scroll_to_element(max_scrolls, direction, present, resolved, size) ==
    scroll_loop(0, max_scrolls, direction, present, resolved, size, <<>>)

Directions == {"up", "down", "left", "UP", ""}

WindowSizes == { [width |-> 1080, height |-> 1920], [width |-> 375, height |-> 667] }

Max0(n) == IF n > 0 THEN n ELSE 0

\* one call of scroll_to_element on a page bound to a live session
CallScrollToElement ==
    /\ \E m \in (-1)..MaxScrollsArg, dir \in Directions, size \in WindowSizes,
          resolved \in BOOLEAN :
         \E present \in [1..Max0(m) -> BOOLEAN] :
            scrollCall' = [called |-> TRUE, max_scrolls |-> m, direction |-> dir,
                           present |-> present, resolved |-> resolved, size |-> size,
                           result |-> scroll_to_element(m, dir, present, resolved, size)]
    /\ UNCHANGED managerVars

InitScroll == InitManager({[kind |-> "missing"]}) /\ scrollCall = NoScroll

NextScroll == CallScrollToElement

SpecScroll == InitScroll /\ [][NextScroll]_vars

----------------------------------------------------------------------------
(* Vocabulary of the properties *)

\* the two cases of one letter
CasePairs ==
    { <<"a", "A">>, <<"b", "B">>, <<"c", "C">>, <<"d", "D">>, <<"e", "E">>,
      <<"f", "F">>, <<"g", "G">>, <<"h", "H">>, <<"i", "I">>, <<"j", "J">>,
      <<"k", "K">>, <<"l", "L">>, <<"m", "M">>, <<"n", "N">>, <<"o", "O">>,
      <<"p", "P">>, <<"q", "Q">>, <<"r", "R">>, <<"s", "S">>, <<"t", "T">>,
      <<"u", "U">>, <<"v", "V">>, <<"w", "W">>, <<"x", "X">>, <<"y", "Y">>,
      <<"z", "Z">> }

SameLetter(a, b) == a = b \/ <<a, b>> \in CasePairs \/ <<b, a>> \in CasePairs

\* s and t are equal ignoring case
EqualIgnoringCase(s, t) ==
    Len(s) = Len(t) /\ \A i \in 1..Len(s) : SameLetter(s[i], t[i])

BuilderOps == {"create_android_driver", "create_ios_driver"}

\* the built-in defaults of each builder
AndroidDefaults ==
    [platformName |-> "Android", automationName |-> "UiAutomator2",
     deviceName |-> "Android Emulator", newCommandTimeout |-> 300]

IosDefaults ==
    [platformName |-> "iOS", automationName |-> "XCUITest",
     deviceName |-> "iPhone 14", newCommandTimeout |-> 300]

DefaultsOf(builder) == IF builder = "android" THEN AndroidDefaults ELSE IosDefaults

\* the section of the loaded config a builder reads
FileSectionOf(builder) == DictGet(config.dict, builder, EmptyDict)

\* what the app_path/device_name parameters of a call supply (a parameter
\* that is None or empty supplies nothing)
ParamLayer(call) ==
    LET a == IF StrTruthy(call.app_path) THEN [app |-> call.app_path] ELSE EmptyDict
        d == IF StrTruthy(call.device_name) THEN [deviceName |-> call.device_name]
             ELSE EmptyDict
    IN  DictUpdate(a, d)

\* what custom_caps supplies
CustomLayer(call) == IF call.custom_caps.isNone THEN EmptyDict ELSE call.custom_caps.dict

Swipes(events) == SelectSeq(events, LAMBDA e : e.kind \in {"swipe_up", "swipe_down"})

PresenceChecks(events) == SelectSeq(events, LAMBDA e : e.kind = "is_element_present")

\* the 1-based presence checks of the latest scroll call that found the element
PresentAt == { i \in 1..Max0(scrollCall.max_scrolls) : scrollCall.present[i] }

\* k is the first presence check at which the element is present
FirstPresentAt(k) == k \in PresentAt /\ \A j \in PresentAt : k <= j

----------------------------------------------------------------------------
(* Properties *)

\* C1: in create_android_driver and create_ios_driver, every key of
\* custom_caps has its custom_caps value in the capability set sent to open
\* the session, whatever the file config, the parameters and the defaults
\* hold for that key; an app_path that custom_caps does not override is sent
\* as "app".
C1_CustomCapsOverride ==
    (lastCall.op \in BuilderOps /\ lastCall.requested) =>
        /\ \A K \in DOMAIN CustomLayer(lastCall) :
              K \in DOMAIN lastCall.caps /\ lastCall.caps[K] = CustomLayer(lastCall)[K]
        /\ (StrTruthy(lastCall.app_path) /\ "app" \notin DOMAIN CustomLayer(lastCall))
              => lastCall.caps["app"] = lastCall.app_path

\* C1 witness: file deviceName=OldDevice, appPath=/a.apk, a deviceName
\* parameter, customCaps deviceName=Pixel_6: the session is opened with
\* deviceName=Pixel_6 and app=/a.apk.
C1_Witness ==
    /\ lastCall.op = "create_android_driver"
    /\ lastCall.opened
    /\ ~config.isNone
    /\ FileSectionOf("android") = [deviceName |-> "OldDevice"]
    /\ lastCall.app_path = "/a.apk"
    /\ lastCall.device_name = "Nexus_5"
    /\ lastCall.custom_caps = SomeDict([deviceName |-> "Pixel_6"])
    /\ lastCall.caps["deviceName"] = "Pixel_6"
    /\ lastCall.caps["app"] = "/a.apk"

\* C7: a missing config file gives an empty config and a constructed
\* manager; create_android_driver without arguments then sends
\* platformName=Android, automationName=UiAutomator2, deviceName=Android
\* Emulator, newCommandTimeout=300; and for either builder each default key
\* is sent with the default value when no higher layer (file section,
\* non-empty parameter, custom_caps) has the key, and with the highest such
\* layer's value otherwise.
C7_DefaultsFillGaps ==
    /\ configFile.kind = "missing" => (initRaised = None /\ config = SomeDict(EmptyDict))
    /\ ( /\ configFile.kind = "missing"
         /\ lastCall.op = "create_android_driver"
         /\ lastCall.app_path = None /\ lastCall.device_name = None
         /\ lastCall.custom_caps = NoneDict )
       => /\ lastCall.requested
          /\ lastCall.caps = AndroidDefaults
    /\ (lastCall.op \in BuilderOps /\ lastCall.requested) =>
          LET file == FileSectionOf(lastCall.builder)
              param == ParamLayer(lastCall)
              custom == CustomLayer(lastCall)
              defaults == DefaultsOf(lastCall.builder)
          IN  \A k \in DOMAIN defaults :
                /\ k \in DOMAIN lastCall.caps
                /\ lastCall.caps[k] =
                      IF k \in DOMAIN custom THEN custom[k]
                      ELSE IF k \in DOMAIN param THEN param[k]
                      ELSE IF k \in DOMAIN file THEN file[k]
                      ELSE defaults[k]

\* C7 witness: no config file, create_android_driver() opened a session
\* with exactly the four defaults.
C7_Witness ==
    /\ configFile.kind = "missing"
    /\ lastCall.op = "create_android_driver"
    /\ lastCall.opened
    /\ lastCall.app_path = None /\ lastCall.device_name = None
    /\ lastCall.custom_caps = NoneDict
    /\ lastCall.caps = AndroidDefaults
    /\ lastCall.url = DEFAULT_URL

\* C2: create_driver runs the Android builder exactly when its platform
\* argument equals "android" ignoring case and the iOS builder exactly when
\* it equals "ios" ignoring case; for any other platform it raises
\* ValueError (unsupported platform), requests no session, and leaves the
\* held handle and the sessions as they were.
C2_Dispatch ==
    /\ [](lastCall.op = "create_driver" =>
            /\ lastCall.builder = "android" <=> EqualIgnoringCase(lastCall.platform, STR_android)
            /\ lastCall.builder = "ios" <=> EqualIgnoringCase(lastCall.platform, STR_ios)
            /\ lastCall.builder \in {"android", "ios", "none"}
            /\ lastCall.builder = "none" =>
                  /\ lastCall.raised = "ValueError"
                  /\ ~lastCall.requested /\ ~lastCall.opened)
    /\ [][ \A p \in Platforms :
             ( /\ ~EqualIgnoringCase(p, STR_android)
               /\ ~EqualIgnoringCase(p, STR_ios)
               /\ \E ok \in BOOLEAN : create_driver(p, None, None, NoneDict, ok) )
             => /\ UNCHANGED <<driver, sessions>>
                /\ lastCall'.raised = "ValueError" ]_vars

\* C2 witness: "IOS" reached the iOS builder while an Android session
\* opened through "Android" was held.
C2_Witness ==
    /\ lastCall.op = "create_driver"
    /\ lastCall.platform = <<"I", "O", "S">>
    /\ lastCall.builder = "ios"
    /\ lastCall.opened
    /\ Len(sessions) = 2
    /\ sessions[1].builder = "android"
    /\ sessions[2].builder = "ios"

\* C4: quit_driver raises nothing and leaves the manager without a handle;
\* with a handle held it sends that session exactly one close request and
\* touches no other session, also when the close request raises.
C4_QuitNeverRaises ==
    [][ (\E ok \in BOOLEAN : quit_driver(ok)) =>
          /\ lastCall'.raised = None
          /\ driver' = NoDriver
          /\ Len(sessions') = Len(sessions)
          /\ \A i \in 1..Len(sessions) :
                IF i = driver
                THEN /\ sessions'[i].closeRequests = sessions[i].closeRequests + 1
                     /\ lastCall'.closeRequests = 1
                ELSE sessions'[i] = sessions[i] ]_vars

\* C4 witness: the close request of the latest quit_driver raised, and the
\* handle is cleared.
C4_Witness ==
    /\ lastCall.op = "quit_driver"
    /\ lastCall.close_error = "WebDriverException"
    /\ lastCall.closeRequests = 1
    /\ lastCall.raised = None
    /\ driver = NoDriver
    /\ sessions[Len(sessions)].state = "close_failed"

\* C5: quit_driver called before any session was created, or directly after
\* another quit_driver, raises nothing, sends no close request and changes
\* neither the handle (none) nor any session; and no session ever has more
\* than one close request from the manager.
C5_QuitIdempotent ==
    /\ [][ ( /\ (sessions = <<>> \/ lastCall.op = "quit_driver")
             /\ \E ok \in BOOLEAN : quit_driver(ok) )
           => /\ driver = NoDriver
              /\ UNCHANGED <<driver, sessions>>
              /\ lastCall'.raised = None
              /\ lastCall'.closeRequests = 0 ]_vars
    /\ [](\A i \in 1..Len(sessions) : sessions[i].closeRequests <= 1)

\* C5 witness: a quit_driver that had nothing to close, after an earlier
\* one whose close request raised.
C5_Witness ==
    /\ lastCall.op = "quit_driver"
    /\ lastCall.closeRequests = 0
    /\ driver = NoDriver
    /\ Len(sessions) = 1
    /\ sessions[1].state = "close_failed"
    /\ sessions[1].closeRequests = 1

\* C6: whenever a with block on the manager is left, normally or with an
\* exception (of the body, or of a failed create_driver), the session held
\* at that moment gets a close request and the manager holds no handle
\* afterwards.
C6_ScopedExit ==
    /\ [][ (scope # "outside" /\ scope' = "outside") =>
             /\ driver' = NoDriver
             /\ lastCall'.op = "__exit__"
             /\ driver # NoDriver =>
                   /\ sessions'[driver].closeRequests = sessions[driver].closeRequests + 1
                   /\ sessions'[driver].state # "open" ]_vars
    /\ []((scope = "outside" /\ lastCall.op = "__exit__") => driver = NoDriver)

\* C6 witness: the block was left by the exception of a failed
\* create_driver while a session was held; that session was sent a close
\* request.
C6_Witness ==
    /\ scope = "outside"
    /\ lastCall.op = "__exit__"
    /\ lastCall.exc_type = "WebDriverException"
    /\ lastCall.closeRequests = 1
    /\ driver = NoDriver
    /\ Len(sessions) = 1
    /\ sessions[1].state = "closed"

\* C9: at every moment every session the manager opened and that is still
\* open is the one the manager holds (so at most one is open).
C9_OnlyHeldSessionOpen ==
    \A i \in 1..Len(sessions) : sessions[i].state = "open" => driver = i

\* C3: a scroll_to_element call with max_scrolls >= 0 ends with at most
\* max_scrolls swipes; when every presence check of the call finds the
\* element absent it returns None, raises nothing, and has made exactly
\* max_scrolls presence checks and max_scrolls swipes.
C3_ScrollBounded ==
    (scrollCall.called /\ scrollCall.max_scrolls >= 0) =>
        LET r == scrollCall.result
            m == scrollCall.max_scrolls
        IN  /\ Len(Swipes(r.events)) <= m
            /\ PresentAt = {} =>
                  /\ r.ret = None
                  /\ r.raised = None
                  /\ Len(PresenceChecks(r.events)) = m
                  /\ Len(Swipes(r.events)) = m

\* C3 witness: max_scrolls = 3, the element absent at all three checks.
C3_Witness ==
    /\ scrollCall.called
    /\ scrollCall.max_scrolls = 3
    /\ PresentAt = {}
    /\ scrollCall.result.ret = None
    /\ Len(Swipes(scrollCall.result.events)) = 3

\* C8: when the element is first present at the k-th presence check of a
\* scroll_to_element call, exactly k-1 swipes were made, each a swipe up for
\* direction 'up' and a swipe down for any other direction, the element is
\* returned, and the k-th check is the last presence check and has no swipe
\* after it.
C8_FoundAtKthCheck ==
    scrollCall.called =>
        \A k \in 1..Max0(scrollCall.max_scrolls) :
            FirstPresentAt(k) =>
                LET r == scrollCall.result
                    sw == Swipes(r.events)
                IN  /\ Len(sw) = k - 1
                    /\ \A j \in 1..Len(sw) :
                          sw[j].kind = IF scrollCall.direction = "up" THEN "swipe_up"
                                       ELSE "swipe_down"
                    /\ Len(PresenceChecks(r.events)) = k
                    /\ r.events[Len(r.events)].kind = "find_element"
                    /\ r.events[Len(r.events) - 1].kind = "is_element_present"
                    /\ r.raised = None
                    /\ r.ret = Element

\* C10: no scroll_to_element call raises the element-not-found
\* TimeoutException: each returns the element or None.
C10_ScrollNeverRaises ==
    scrollCall.called =>
        /\ scrollCall.result.raised = None
        /\ scrollCall.result.ret \in {Element, None}

====
